---- MODULE Spec2Model ----
(***************************************************************************)
(* Model of the Complex DSL interpreter (complex/interpreter.py) together  *)
(* with the part of the database helper (complex/db.py, complex/errors.py) *)
(* that decides which exception an interpreter call sees.                  *)
(*                                                                         *)
(* One ComplexInterpreter instance is modelled.  A script is the outcome   *)
(* of ComplexParser.parse (a ParseError, or a Program of nstmts            *)
(* statements); the statements of the Program are drawn one by one, in     *)
(* declaration order, when the for loop of execute() reaches them.  The    *)
(* Gateway (run_cypher) answers each call with rows or with a native       *)
(* failure carrying an SQLSTATE code.                                      *)
(***************************************************************************)
EXTENDS Integers, Sequences, FiniteSets, TLC

\* Longest Program (number of statements of one script) that is explored.
MaxStmts == 3

None == "None"

----------------------------------------------------------------------------
(* Values the scripts and the Gateway are drawn from *)

EntityNames == {"Person", "Ghost"}
RelNames == {"KNOWS", "NOPE"}
AliasNames == {"a", "b"}
NativeIds == {1, 2}
LiteralIds == {1}

\* models.py: the AST statement variants (only the fields execute() reads)
EntityDef(name) == [kind |-> "EntityDef", name |-> name]
RelationshipDef(name) == [kind |-> "RelationshipDef", name |-> name]
InsertEntity(entity_type, alias) ==
    [kind |-> "InsertEntity", entity_type |-> entity_type, alias |-> alias]
ConnectRel(from_ref, relationship, to_ref) ==
    [kind |-> "ConnectRel", from_ref |-> from_ref,
     relationship |-> relationship, to_ref |-> to_ref]
UpdateStmt(target) == [kind |-> "UpdateStmt", target |-> target]
DeleteStmt(target) == [kind |-> "DeleteStmt", target |-> target]
QueryStmt == [kind |-> "QueryStmt"]

\* parser.py alias_or_id: a reference is a str (alias name) or an int
StrRef(name) == [type |-> "str", value |-> name]
IntRef(id) == [type |-> "int", value |-> id]
Refs == {StrRef(a) : a \in AliasNames} \cup {IntRef(i) : i \in LiteralIds}

\* parser.py target_ref: alias / id / pattern targets of UPDATE and DELETE
TargetRef(type, value, entity_type) ==
    [type |-> type, value |-> value, entity_type |-> entity_type]
TargetRefs ==
    {TargetRef("alias", a, None) : a \in AliasNames}
    \cup {TargetRef("id", i, None) : i \in LiteralIds}
    \cup {TargetRef("pattern", "", "Person")}

Statements ==
    {EntityDef(n) : n \in EntityNames}
    \cup {RelationshipDef(n) : n \in RelNames}
    \cup {InsertEntity(t, a) : t \in EntityNames, a \in AliasNames \cup {None}}
    \cup {ConnectRel(f, r, t) : f \in Refs, r \in RelNames, t \in Refs}
    \cup {UpdateStmt(t) : t \in TargetRefs}
    \cup {DeleteStmt(t) : t \in TargetRefs}
    \cup {QueryStmt}

NoStmt == [kind |-> "NoStmt"]

----------------------------------------------------------------------------
(* errors.py *)

Error(cls, msg, code) == [cls |-> cls, msg |-> msg, code |-> code]
NoError == Error(None, "", None)

SemanticError(msg) == Error("SemanticError", msg, None)

\* SQLSTATE_ERROR_MAP
SQLSTATE_ERROR_MAP ==
    [c \in {"08000", "08003", "08006"} |-> "ConnectionError"]
    @@ [c \in {"22000", "22001", "22003", "22007", "22012", "22P02",
               "23000", "23001", "23502", "23503", "23505", "23514",
               "3D000"} |-> "ExecutionError"]
    @@ [c \in {"42000", "42701", "42702", "42703", "42P01", "42P02"}
          |-> "SemanticError"]
    @@ [c \in {"42601"} |-> "ParseError"]

\* ParseError.__init__(message, line, column, source) takes no `code`
\* keyword, so error_class(message, code=sqlstate) raises TypeError for it.
TypeErrorMsg == "__init__() got an unexpected keyword argument 'code'"

\* map_db_error: the exception db.run raises for a native failure
map_db_error(sqlstate, message) ==
    IF sqlstate # None /\ sqlstate \in DOMAIN SQLSTATE_ERROR_MAP
    THEN IF SQLSTATE_ERROR_MAP[sqlstate] = "ParseError"
         THEN Error("TypeError", TypeErrorMsg, None)
         ELSE Error(SQLSTATE_ERROR_MAP[sqlstate], message, sqlstate)
    ELSE Error("ExecutionError", message, sqlstate)

----------------------------------------------------------------------------
(* db.py: the Gateway *)

\* SQLSTATE codes of the native failures explored; None is a failure that
\* carries no pgcode (for instance the pool's own ConnectionError).
PgCodes == {None, "08006", "23505", "42601", "42P01", "XX000"}
NativeMsg == "db failure"
RowLists == {<<>>} \cup {<<i>> : i \in NativeIds}

NativeOutcomes ==
    {[ok |-> TRUE, rows |-> r, pgcode |-> None] : r \in RowLists}
    \cup {[ok |-> FALSE, rows |-> <<>>, pgcode |-> c] : c \in PgCodes}

\* DatabaseManager.run / run_cypher: rows, or the mapped exception
run_cypher(native) ==
    IF native.ok
    THEN [ok |-> TRUE, rows |-> native.rows, exc |-> NoError]
    ELSE [ok |-> FALSE, rows |-> <<>>,
          exc |-> map_db_error(native.pgcode, NativeMsg)]

----------------------------------------------------------------------------
(* State of one ComplexInterpreter instance and of the execute() call *)

VARIABLES
    entities,       \* self.entities: name -> EntityDef
    relationships,  \* self.relationships: name -> RelationshipDef
    aliases,        \* self.aliases: alias -> native id
    pc,             \* "idle" | "loop" | "gateway": position inside execute()
    nstmts,         \* len(program.statements) of the running call
    idx,            \* number of statements the for loop has taken so far
    cur,            \* the statement taken last
    results,        \* the local list `results`
    outcome,        \* "none" | "returned" | "raised": how the last call ended
    error,          \* the exception handed to the caller
    \* history variables, read by the properties only
    origError,      \* the exception as first raised (parser, check, Gateway)
    boundNow,       \* aliases bound by an INSERT of the running/last call
    prevBound,      \* aliases bound by an INSERT of some earlier call
    matchRows,      \* rows the Gateway returned for MATCH statements, in order
    gwCalls,        \* indices of the statements that issued a Gateway call
    resolved,       \* <<from_id, to_id>> of the CONNECT being executed
    redefined,      \* cur is an ENTITY whose name was already registered
    swallowed,      \* the exception the handler of cur caught and dropped
    gwRows,         \* rows the Gateway returned for cur, an INSERT
    \* one call of ComplexParser.parse and of ComplexTransformer.pattern
    script,         \* the text handed to parse(), statement by statement
    parsed,         \* what parse(script) returned or raised
    items,          \* the children handed to pattern()
    built,          \* the Pattern that pattern(items) returned
    \* one statement handed to a handler and the query text built for it
    statement,      \* the AST statement, with its assignments and patterns
    emitted,        \* the pieces of the query text the handler built
    uuids,          \* number of uuid4() calls made so far
    createdIds,     \* the "id" property of each create-node query, in order
    \* one DatabaseManager shared by the threads that call get_connection()
    pool,           \* self._pool: None or the connection pool
    lock,           \* self._lock: None or the thread that holds it
    tpc,            \* thread -> position inside get_connection()
    tcalls,         \* thread -> number of get_connection() calls started
    tresult,        \* thread -> how its last call ended
    testState,      \* "none" | "running" | "passed" | "failed"
    poolsCreated    \* number of SimpleConnectionPool objects constructed

interpVars == <<entities, relationships, aliases, pc, nstmts, idx, cur,
                results, outcome, error, origError, boundNow, prevBound,
                matchRows, gwCalls, resolved, redefined, swallowed, gwRows>>

parserVars == <<script, parsed, items, built>>

compileVars == <<statement, emitted, uuids, createdIds>>

poolVars == <<pool, lock, tpc, tcalls, tresult, testState, poolsCreated>>

vars == <<entities, relationships, aliases, pc, nstmts, idx, cur, results,
          outcome, error, origError, boundNow, prevBound, matchRows, gwCalls,
          resolved, redefined, swallowed, gwRows, script, parsed, items,
          built, statement, emitted, uuids, createdIds, pool, lock, tpc,
          tcalls, tresult, testState, poolsCreated>>

EmptyMap == [x \in {} |-> None]

\* no parse() call and no pattern() call has been made yet
NotParsed == [called |-> FALSE, ok |-> FALSE, program |-> <<>>,
              exc |-> NoError]
NoPattern == [called |-> FALSE, nodes |-> <<>>, edges |-> <<>>]

\* no handler has built a query yet
NotEmitted == [called |-> FALSE]

\* the threads that share the DatabaseManager
Threads == {"t1", "t2"}

InitExecution ==
    /\ entities = EmptyMap
    /\ relationships = EmptyMap
    /\ pc = "idle"
    /\ nstmts = 0
    /\ idx = 0
    /\ cur = NoStmt
    /\ results = <<>>
    /\ outcome = "none"
    /\ error = NoError
    /\ origError = NoError
    /\ boundNow = {}
    /\ prevBound = {}
    /\ matchRows = <<>>
    /\ gwCalls = <<>>
    /\ resolved = <<>>
    /\ redefined = FALSE
    /\ swallowed = NoError
    /\ gwRows = <<>>

InitInterpreter ==
    /\ InitExecution
    /\ aliases = EmptyMap

InitParser ==
    /\ script = <<>>
    /\ parsed = NotParsed
    /\ items = <<>>
    /\ built = NoPattern

InitCompile ==
    /\ statement = NoStmt
    /\ emitted = NotEmitted
    /\ uuids = 0
    /\ createdIds = <<>>

\* DatabaseManager.__init__
InitPool ==
    /\ pool = None
    /\ lock = None
    /\ tpc = [t \in Threads |-> "idle"]
    /\ tcalls = [t \in Threads |-> 0]
    /\ tresult = [t \in Threads |-> "none"]
    /\ testState = "none"
    /\ poolsCreated = 0

Init ==
    /\ InitInterpreter
    /\ InitParser
    /\ InitCompile
    /\ InitPool

----------------------------------------------------------------------------
(* execute(): parse, reset, loop, except *)

\* ComplexParser.parse: a malformed script raises ParseError
ParseErrorExc == Error("ParseError", "unexpected input", None)

KeptAliases == aliases

\* self.aliases.clear()
ClearedAliases == EmptyMap

ResetEverything ==
    /\ aliases' = ClearedAliases
    /\ entities' = EmptyMap
    /\ relationships' = EmptyMap

\* "Reset aliases for this execution": only the alias table is reset
ResetForExecution ==
    /\ aliases' = ClearedAliases
    /\ UNCHANGED <<entities, relationships>>

UnexpectedMsg == "Unexpected execution error: "

ExecuteExceptNoWrap(e) == e

ExecuteExceptWrapAll(e) ==
    Error("ExecutionError", UnexpectedMsg \o e.msg, None)

\* except Exception as e: wrap whatever is not Semantic/ExecutionError
ExecuteExcept(e) ==
    IF e.cls \in {"SemanticError", "ExecutionError"}
    THEN e
    ELSE Error("ExecutionError", UnexpectedMsg \o e.msg, None)

CanDispatchAsync == pc \in {"loop", "gateway"} /\ idx < nstmts

\* the for loop takes the next statement only between two statements
CanDispatch == pc = "loop" /\ idx < nstmts

HandlerReturnRows(stmt, rows) == [isNone |-> FALSE, rows |-> rows]

\* what a handler returns to the loop: None, or the rows of a MATCH
HandlerReturn(stmt, rows) ==
    IF stmt.kind = "QueryStmt"
    THEN [isNone |-> FALSE, rows |-> rows]
    ELSE [isNone |-> TRUE, rows |-> <<>>]

\* if result is not None: results.extend(result)
Extend(res, ret) == IF ret.isNone THEN res ELSE res \o ret.rows

RaiseAndContinue(e) ==
    /\ pc' = "loop"
    /\ outcome' = "raised"
    /\ error' = ExecuteExcept(e)
    /\ origError' = e
    /\ UNCHANGED <<entities, relationships, aliases, boundNow, results,
                   gwCalls>>

RaiseWithRollback(e) ==
    /\ pc' = "idle"
    /\ outcome' = "raised"
    /\ error' = ExecuteExcept(e)
    /\ origError' = e
    /\ aliases' = EmptyMap
    /\ UNCHANGED <<entities, relationships, boundNow, results, gwCalls>>

\* an exception leaves the handler and the for loop and reaches `except`
\* in execute(), which re-raises it (wrapped or not) and touches no state
Raise(e) ==
    /\ pc' = "idle"
    /\ outcome' = "raised"
    /\ error' = ExecuteExcept(e)
    /\ origError' = e
    /\ UNCHANGED <<entities, relationships, aliases, boundNow, results,
                   gwCalls>>

\* the handler returned `ret` to the loop
Complete(ret) ==
    /\ pc' = "loop"
    /\ results' = Extend(results, ret)
    /\ UNCHANGED <<outcome, error, origError>>

\* the handler reached run_cypher(...)
CallGateway ==
    /\ pc' = "gateway"
    /\ gwCalls' = Append(gwCalls, idx + 1)
    /\ UNCHANGED <<results, outcome, error, origError>>

Execute ==
    /\ pc = "idle"
    /\ \E wellFormed \in BOOLEAN, n \in 0..MaxStmts :
         /\ idx' = 0
         /\ cur' = NoStmt
         /\ prevBound' = prevBound \cup boundNow
         /\ boundNow' = {}
         /\ matchRows' = <<>>
         /\ gwCalls' = <<>>
         /\ resolved' = <<>>
         /\ redefined' = FALSE
         /\ swallowed' = NoError
         /\ gwRows' = <<>>
         /\ UNCHANGED <<parserVars, compileVars, poolVars>>
         /\ IF ~wellFormed
            THEN /\ pc' = "idle"
                 /\ outcome' = "raised"
                 /\ error' = ParseErrorExc
                 /\ origError' = ParseErrorExc
                 /\ nstmts' = 0
                 /\ UNCHANGED <<entities, relationships, aliases, results>>
            ELSE /\ ResetForExecution
                 /\ results' = <<>>
                 /\ nstmts' = n
                 /\ pc' = "loop"
                 /\ outcome' = "none"
                 /\ error' = NoError
                 /\ origError' = NoError

Return ==
    /\ pc = "loop"
    /\ idx = nstmts
    /\ pc' = "idle"
    /\ outcome' = "returned"
    /\ UNCHANGED <<entities, relationships, aliases, nstmts, idx, cur, results,
                   error, origError, boundNow, prevBound, matchRows, gwCalls,
                   resolved, redefined, swallowed, gwRows>>
    /\ UNCHANGED <<parserVars, compileVars, poolVars>>

----------------------------------------------------------------------------
(* the statement handlers, up to their Gateway call *)

EntityRegisteredAlways(t) == TRUE

\* statement.entity_type in self.entities
EntityRegistered(t) == t \in DOMAIN entities

RelationshipRegisteredAlways(r) == TRUE

\* statement.relationship in self.relationships
RelationshipRegistered(r) == r \in DOMAIN relationships

\* _resolve_reference: the id it returns when it does not raise
ResolveReference(ref) ==
    IF ref.type = "int" THEN ref.value ELSE aliases[ref.value]

ConnectIdsSwapped(stmt) ==
    <<ResolveReference(stmt.to_ref), ResolveReference(stmt.from_ref)>>

\* _execute_connect_rel: from_id, to_id
ConnectIds(stmt) ==
    <<ResolveReference(stmt.from_ref), ResolveReference(stmt.to_ref)>>

\* _resolve_reference: the exception it raises, NoError if it resolves
ResolveReferenceError(ref) ==
    IF ref.type = "int" THEN NoError
    ELSE IF ref.value \in DOMAIN aliases THEN NoError
    ELSE SemanticError("Unknown alias: " \o ref.value)

TargetErrorLenient(target) == NoError

\* target resolution of _execute_update_stmt / _execute_delete_stmt
TargetError(target) ==
    IF target.type = "alias"
    THEN IF target.value \in DOMAIN aliases THEN NoError
         ELSE SemanticError("Unknown alias: " \o target.value)
    ELSE IF target.type \in {"id", "pattern"} THEN NoError
    ELSE SemanticError("Invalid target type: " \o target.type)

\* the SemanticError a handler raises before its Gateway call, or NoError
CompileError(stmt) ==
    CASE stmt.kind = "InsertEntity" ->
           IF EntityRegistered(stmt.entity_type) THEN NoError
           ELSE SemanticError("Unknown entity type: " \o stmt.entity_type)
      [] stmt.kind = "ConnectRel" ->
           IF ~RelationshipRegistered(stmt.relationship)
           THEN SemanticError("Unknown relationship type: "
                              \o stmt.relationship)
           ELSE IF ResolveReferenceError(stmt.from_ref) # NoError
           THEN ResolveReferenceError(stmt.from_ref)
           ELSE ResolveReferenceError(stmt.to_ref)
      [] stmt.kind \in {"UpdateStmt", "DeleteStmt"} -> TargetError(stmt.target)
      [] OTHER -> NoError

PutOnly(map, key, val) == [k \in {key} |-> val]

\* d[key] = val on a Python dict
Put(map, key, val) == [k \in DOMAIN map \cup {key} |->
                          IF k = key THEN val ELSE map[k]]

ExecuteRelationshipDefWithCall(stmt) ==
    /\ relationships' = Put(relationships, stmt.name, stmt)
    /\ CallGateway
    /\ UNCHANGED <<entities, aliases, boundNow>>

\* _execute_relationship_def: register, return None
ExecuteRelationshipDef(stmt) ==
    /\ relationships' = Put(relationships, stmt.name, stmt)
    /\ Complete(HandlerReturn(stmt, <<>>))
    /\ UNCHANGED <<entities, aliases, boundNow, gwCalls>>

Dispatch(stmt) ==
    /\ CanDispatch
    /\ idx' = idx + 1
    /\ cur' = stmt
    /\ redefined' = (stmt.kind = "EntityDef" /\ stmt.name \in DOMAIN entities)
    /\ resolved' = IF stmt.kind = "ConnectRel" /\ CompileError(stmt) = NoError
                   THEN ConnectIds(stmt)
                   ELSE <<>>
    /\ swallowed' = NoError
    /\ gwRows' = <<>>
    /\ UNCHANGED <<nstmts, prevBound, matchRows>>
    /\ UNCHANGED <<parserVars, compileVars, poolVars>>
    /\ CASE stmt.kind = "EntityDef" ->
              /\ entities' = Put(entities, stmt.name, stmt)
              /\ CallGateway
              /\ UNCHANGED <<relationships, aliases, boundNow>>
         [] stmt.kind = "RelationshipDef" -> ExecuteRelationshipDef(stmt)
         [] OTHER ->
              IF CompileError(stmt) # NoError
              THEN Raise(CompileError(stmt))
              ELSE /\ CallGateway
                   /\ UNCHANGED <<entities, relationships, aliases,
                                  boundNow>>

----------------------------------------------------------------------------
(* the Gateway answers and the handler runs to its end *)

BindsAliasNever(stmt, rows) == FALSE

\* _execute_insert_entity: if result: ... if statement.alias:
BindsAlias(stmt, rows) == rows # <<>> /\ stmt.alias # None

SwallowedNever(stmt, e) == FALSE

\* _execute_entity_def: except ExecutionError: pass
Swallowed(stmt, e) == stmt.kind = "EntityDef" /\ e.cls = "ExecutionError"

GatewayReply(native) ==
    /\ pc = "gateway"
    /\ LET r == run_cypher(native) IN
         /\ matchRows' = IF cur.kind = "QueryStmt" /\ native.ok
                         THEN matchRows \o native.rows
                         ELSE matchRows
         /\ swallowed' = IF ~r.ok /\ Swallowed(cur, r.exc)
                         THEN r.exc
                         ELSE NoError
         /\ gwRows' = IF cur.kind = "InsertEntity" /\ r.ok
                      THEN r.rows
                      ELSE <<>>
         /\ IF ~r.ok /\ ~Swallowed(cur, r.exc)
            THEN Raise(r.exc)
            ELSE /\ Complete(HandlerReturn(cur, r.rows))
                 /\ IF cur.kind = "InsertEntity" /\ BindsAlias(cur, r.rows)
                    THEN /\ aliases' = Put(aliases, cur.alias, r.rows[1])
                         /\ boundNow' = boundNow \cup {cur.alias}
                    ELSE UNCHANGED <<aliases, boundNow>>
                 /\ UNCHANGED <<entities, relationships, gwCalls>>
    /\ UNCHANGED <<nstmts, idx, cur, prevBound, resolved, redefined>>
    /\ UNCHANGED <<parserVars, compileVars, poolVars>>

Next ==
    \/ Execute
    \/ Return
    \/ \E stmt \in Statements : Dispatch(stmt)
    \/ \E native \in NativeOutcomes : GatewayReply(native)

Spec == Init /\ [][Next]_vars

----------------------------------------------------------------------------
(* ComplexParser.parse: the script text, statement by statement *)

MaxScriptLen == 2

StmtKinds == {"EntityDef", "RelationshipDef", "InsertEntity", "ConnectRel",
              "UpdateStmt", "DeleteStmt", "QueryStmt"}

\* the text of one statement: which of the seven forms it has and whether
\* its closing ';' is written
StmtTexts == [kind : StmtKinds, terminated : BOOLEAN]

Scripts == UNION {[1..k -> StmtTexts] : k \in 1..MaxScriptLen}

\* grammar.lark: every statement form ends with ';'
GrammarAccepts(s) == \A i \in 1..Len(s) : s[i].terminated

\* the statement at which the parser stops
FirstRejected(s) ==
    CHOOSE i \in 1..Len(s) :
        ~s[i].terminated /\ \A j \in 1..(i - 1) : s[j].terminated

\* self.parser.parse(script): the tree, or lark's UnexpectedInput
LarkParse(s) ==
    IF GrammarAccepts(s)
    THEN [ok |-> TRUE, tree |-> s, exc |-> NoError]
    ELSE [ok |-> FALSE, tree |-> <<>>,
          exc |-> [cls |-> "UnexpectedInput", msg |-> "unexpected input",
                   line |-> FirstRejected(s), column |-> None]]

\* self.transformer.transform(tree): Program(statements=...)
transform(tree) == [i \in 1..Len(tree) |-> tree[i].kind]

\* ParseError(message=str(e), line=line, column=column, source=script)
ParseError(e, s) ==
    [cls |-> "ParseError", msg |-> e.msg, line |-> e.line,
     column |-> e.column, source |-> s]

parseUnconverted(s) ==
    LET r == LarkParse(s) IN
    IF r.ok
    THEN [ok |-> TRUE, program |-> transform(r.tree), exc |-> NoError]
    ELSE [ok |-> FALSE, program |-> <<>>, exc |-> r.exc]

parse(s) ==
    LET r == LarkParse(s) IN
    IF r.ok
    THEN [ok |-> TRUE, program |-> transform(r.tree), exc |-> NoError]
    ELSE [ok |-> FALSE, program |-> <<>>, exc |-> ParseError(r.exc, s)]

\* the script is any text of the bounded shape; nothing is parsed yet
ParseInit ==
    /\ InitInterpreter
    /\ script \in Scripts
    /\ parsed = NotParsed
    /\ items = <<>>
    /\ built = NoPattern
    /\ InitCompile
    /\ InitPool

ParseCall ==
    /\ LET r == parse(script) IN
         parsed' = [called |-> TRUE, ok |-> r.ok, program |-> r.program,
                    exc |-> r.exc]
    /\ UNCHANGED <<script, items, built>>
    /\ UNCHANGED <<interpVars, compileVars, poolVars>>

ParseNext == ParseCall

ParseSpec == ParseInit /\ [][ParseNext]_vars

----------------------------------------------------------------------------
(* ComplexTransformer.pattern: the children of one pattern production *)

MaxItems == 5

NodeIds == {1, 2}
EdgeIds == {1, 2}

NodePattern(n) == [type |-> "NodePattern", id |-> n]
EdgePattern(n) == [type |-> "EdgePattern", id |-> n]

\* what edge_node_sequence returns: a Python list, not a pattern object
EdgeNodeList == [type |-> "list", id |-> 1]

Items == {NodePattern(n) : n \in NodeIds} \cup {EdgePattern(n) : n \in EdgeIds}
         \cup {EdgeNodeList}

ItemLists == UNION {[1..k -> Items] : k \in 0..MaxItems}

IsNode(item) == item.type = "NodePattern"
IsEdge(item) == item.type = "EdgePattern"

\* isinstance(item, (NodePattern, EdgePattern))
IsValidItem(item) == IsNode(item) \/ IsEdge(item)

\* for i in range(1, len(valid_items), 2), with i counted from 1 here
RECURSIVE PatternLoop(_, _, _)
PatternLoop(valid, i, acc) ==
    IF i > Len(valid)
    THEN acc
    ELSE LET edges == IF IsEdge(valid[i])
                      THEN Append(acc.edges, valid[i])
                      ELSE acc.edges
             nodes == IF i + 1 <= Len(valid) /\ IsNode(valid[i + 1])
                      THEN Append(acc.nodes, valid[i + 1])
                      ELSE acc.nodes
         IN PatternLoop(valid, i + 2, [nodes |-> nodes, edges |-> edges])

patternFirstNodeOnly(its) ==
    LET valid == SelectSeq(its, IsValidItem) IN
    [nodes |-> IF valid # <<>> /\ IsNode(valid[1]) THEN <<valid[1]>> ELSE <<>>,
     edges |-> SelectSeq(valid, IsEdge)]

pattern(its) ==
    LET valid == SelectSeq(its, IsValidItem)
        first == IF valid # <<>> /\ IsNode(valid[1])
                 THEN <<valid[1]>>
                 ELSE <<>>
    IN PatternLoop(valid, 2, [nodes |-> first, edges |-> <<>>])

\* the children are any list of the bounded shape; no Pattern is built yet
PatternInit ==
    /\ InitInterpreter
    /\ script = <<>>
    /\ parsed = NotParsed
    /\ items \in ItemLists
    /\ built = NoPattern
    /\ InitCompile
    /\ InitPool

PatternCall ==
    /\ LET r == pattern(items) IN
         built' = [called |-> TRUE, nodes |-> r.nodes, edges |-> r.edges]
    /\ UNCHANGED <<script, parsed, items>>
    /\ UNCHANGED <<interpVars, compileVars, poolVars>>

PatternNext == PatternCall

PatternSpec == PatternInit /\ [][PatternNext]_vars

----------------------------------------------------------------------------
(* The query text the handlers build.  A Python value is tagged with its
   type; a dict is the sequence of its items in insertion order. *)

MaxAssigns == 2
MaxInserts == 2

PyStr(s) == [t |-> "str", s |-> s]
PyInt(i) == [t |-> "int", i |-> i]
PyBool(b) == [t |-> "bool", b |-> b]
PyNone == [t |-> "none"]

\* models.py Literal: value and type
Literal(type, value) == [cls |-> "Literal", type |-> type, value |-> value]

\* a bare name or a bare number in the place of a literal (alias_or_id)
BareStr(name) == [cls |-> "str", name |-> name]
BareInt(i) == [cls |-> "int", number |-> i]

Literals == {Literal("string", PyStr("a")), Literal("number", PyInt(7)),
             Literal("boolean", PyBool(TRUE)), Literal("null", PyNone)}

AssignValues == Literals \cup {BareStr(n) : n \in AliasNames}
                \cup {BareInt(i) : i \in LiteralIds}

FieldNames == {"name", "id"}

\* models.py Assignment
Assignment(field, value) == [field |-> field, value |-> value]

Assignments == {Assignment(f, v) : f \in FieldNames, v \in AssignValues}

AssignmentLists == UNION {[1..k -> Assignments] : k \in 0..MaxAssigns}

\* alias tables that INSERT ... AS statements leave behind
AliasTables ==
    {EmptyMap, [n \in {"a"} |-> 1], [n \in {"a"} |-> 2],
     [n \in {"a", "b"} |-> IF n = "a" THEN 1 ELSE 2]}

InsertEntityWith(entity_type, assignments) ==
    [kind |-> "InsertEntity", entity_type |-> entity_type,
     assignments |-> assignments]

InsertStatements == {InsertEntityWith("Person", l) : l \in AssignmentLists}

resolve_literal_valueLookupStrings(value) ==
    IF value.cls = "Literal" /\ value.type # "string"
    THEN value.value
    ELSE IF value.cls = "int"
    THEN PyInt(value.number)
    ELSE LET name == IF value.cls = "Literal" THEN value.value.s
                     ELSE value.name
         IN IF name \in DOMAIN aliases THEN PyInt(aliases[name])
            ELSE PyStr(name)

\* _resolve_literal_value (and _resolve_assignment_value, which only calls it)
resolve_literal_value(value) ==
    IF value.cls = "Literal"
    THEN value.value
    ELSE IF value.cls = "str"
    THEN IF value.name \in DOMAIN aliases
         THEN PyInt(aliases[value.name])
         ELSE PyStr(value.name)
    ELSE PyInt(value.number)

\* json.dumps of a str, int, bool or None
json_dumps(pv) ==
    CASE pv.t = "str" -> "\"" \o pv.s \o "\""
      [] pv.t = "int" -> ToString(pv.i)
      [] pv.t = "bool" -> (IF pv.b THEN "true" ELSE "false")
      [] OTHER -> "null"

DictKeys(d) == {d[i].key : i \in 1..Len(d)}

\* d[key]
DictGet(d, key) == d[CHOOSE i \in 1..Len(d) : d[i].key = key].value

\* d[key] = value: an existing key keeps its place
DictSet(d, key, value) ==
    IF key \in DictKeys(d)
    THEN [i \in 1..Len(d) |->
            IF d[i].key = key THEN [key |-> key, value |-> value] ELSE d[i]]
    ELSE Append(d, [key |-> key, value |-> value])

\* json.dumps of a dict: {"k": v, ...} in insertion order
RECURSIVE JsonItems(_, _)
JsonItems(d, i) ==
    IF i > Len(d) THEN ""
    ELSE (IF i > 1 THEN ", " ELSE "")
         \o "\"" \o d[i].key \o "\": " \o json_dumps(d[i].value)
         \o JsonItems(d, i + 1)

json_dumps_dict(d) == "{" \o JsonItems(d, 1) \o "}"

\* for assignment in statement.assignments: properties[field] = value
RECURSIVE AssignProperties(_, _, _)
AssignProperties(assignments, i, properties) ==
    IF i > Len(assignments) THEN properties
    ELSE AssignProperties(assignments, i + 1,
             DictSet(properties, assignments[i].field,
                     resolve_literal_value(assignments[i].value)))

\* str(uuid4()): the n-th call returns a value no other call returns
uuid4(n) == "uuid-" \o ToString(n)

insert_queryUserLast(st, vertex_id) ==
    LET properties ==
            AssignProperties(st.assignments, 1,
                             DictSet(<<>>, "id", PyStr(vertex_id)))
        props_json == json_dumps_dict(properties)
    IN [called |-> TRUE, err |-> NoError, properties |-> properties,
        query |-> "CREATE (n:" \o st.entity_type \o " " \o props_json
                  \o ") RETURN id(n)"]

\* _execute_insert_entity, from the properties dict to cypher_query
insert_query(st, vertex_id) ==
    LET properties ==
            DictSet(AssignProperties(st.assignments, 1, <<>>), "id",
                    PyStr(vertex_id))
        props_json == json_dumps_dict(properties)
    IN [called |-> TRUE, err |-> NoError, properties |-> properties,
        query |-> "CREATE (n:" \o st.entity_type \o " " \o props_json
                  \o ") RETURN id(n)"]

BuildInsert ==
    /\ statement.kind = "InsertEntity"
    /\ uuids < MaxInserts
    /\ uuids' = uuids + 1
    /\ emitted' = insert_query(statement, uuid4(uuids'))
    /\ createdIds' = Append(createdIds, DictGet(emitted'.properties, "id"))
    /\ UNCHANGED statement
    /\ UNCHANGED <<interpVars, parserVars, poolVars>>

\* models.py PropertyCondition and Condition
PropertyCondition(property, value) == [property |-> property, value |-> value]
Condition(conditions, operators) ==
    [conditions |-> conditions, operators |-> operators]

\* condition=None: no Condition object
NoCondition == [none |-> TRUE]
IsNoCondition(condition) == "none" \in DOMAIN condition

MaxConds == 2

PropertyConditions ==
    {PropertyCondition("x", Literal("number", PyInt(7))),
     PropertyCondition("y", Literal("string", PyStr("a")))}

Operators == {"AND", "OR"}

\* parser.py condition: n predicates joined by n - 1 operators
Conditions ==
    UNION {{Condition(c, o) : c \in [1..k -> PropertyConditions],
                              o \in [1..(k - 1) -> Operators]} :
           k \in 1..MaxConds}

OneCondition ==
    Condition(<<PropertyCondition("x", Literal("number", PyInt(7)))>>, <<>>)
OrCondition ==
    Condition(<<PropertyCondition("x", Literal("number", PyInt(7))),
                PropertyCondition("y", Literal("string", PyStr("a")))>>,
              <<"OR">>)

\* _format_literal_for_cypher
format_literal_for_cypher(literal) ==
    IF literal.type = "string" THEN "'" \o literal.value.s \o "'"
    ELSE IF literal.type = "null" THEN "null"
    ELSE IF literal.type = "boolean"
    THEN (IF literal.value.b THEN "true" ELSE "false")
    ELSE ToString(literal.value.i)

\* _build_property_condition
build_property_condition(condition, node_alias) ==
    node_alias \o "." \o condition.property \o " = "
    \o format_literal_for_cypher(condition.value)

\* sep.join(parts)
RECURSIVE Join(_, _, _)
Join(sep, parts, i) ==
    IF i > Len(parts) THEN ""
    ELSE (IF i > 1 THEN sep ELSE "") \o parts[i] \o Join(sep, parts, i + 1)

\* for i, operator in enumerate(condition.operators): result += ...
RECURSIVE JoinOperators(_, _, _)
JoinOperators(parts, operators, i) ==
    IF i > Len(operators) THEN ""
    ELSE (IF i + 1 <= Len(parts)
          THEN " " \o operators[i] \o " " \o parts[i + 1]
          ELSE "")
         \o JoinOperators(parts, operators, i + 1)

\* _build_condition_clause
build_condition_clause(condition, node_alias) ==
    IF IsNoCondition(condition) THEN "true"
    ELSE LET condition_parts ==
                 [i \in 1..Len(condition.conditions) |->
                    build_property_condition(condition.conditions[i],
                                             node_alias)]
         IN IF condition.operators # <<>>
            THEN condition_parts[1]
                 \o JoinOperators(condition_parts, condition.operators, 1)
            ELSE Join(" AND ", condition_parts, 1)

\* _build_condition_for_node
build_condition_for_node(condition) ==
    "{" \o Join(", ", [i \in 1..Len(condition.conditions) |->
                         condition.conditions[i].property \o ": "
                         \o format_literal_for_cypher(
                                condition.conditions[i].value)], 1)
    \o "}"

\* models.py TargetRef with every field
TargetRefWith(type, value, entity_type, condition) ==
    [type |-> type, value |-> value, entity_type |-> entity_type,
     condition |-> condition]

CompileTargets ==
    {TargetRefWith("alias", PyStr(a), None, NoCondition) : a \in AliasNames}
    \cup {TargetRefWith("id", PyInt(i), None, NoCondition) :
            i \in LiteralIds}
    \cup {TargetRefWith("pattern", PyStr(""), "Person", c) :
            c \in {NoCondition, OneCondition, OrCondition}}
    \cup {TargetRefWith("label", PyStr(""), None, NoCondition)}

UpdateStmtWith(target, assignments) ==
    [kind |-> "UpdateStmt", target |-> target, assignments |-> assignments]
DeleteStmtWith(target) == [kind |-> "DeleteStmt", target |-> target]

SetAssignmentLists ==
    UNION {[1..k -> {Assignment("name", v) : v \in AssignValues}] :
           k \in 0..MaxAssigns}

UpdateStatements ==
    {UpdateStmtWith(t, l) : t \in CompileTargets, l \in SetAssignmentLists}
DeleteStatements == {DeleteStmtWith(t) : t \in CompileTargets}

\* the query a handler raised instead of building
NoQuery(e) == [called |-> TRUE, err |-> e, match |-> "", where |-> "",
               action |-> ""]

\* n.field = 'value' for a str, n.field = json.dumps(value) otherwise
set_clause(assignment) ==
    LET value == resolve_literal_value(assignment.value) IN
    IF value.t = "str"
    THEN "n." \o assignment.field \o " = '" \o value.s \o "'"
    ELSE "n." \o assignment.field \o " = " \o json_dumps(value)

\* MATCH (n:{statement.target.entity_type or ''})
match_label(target) ==
    "MATCH (n:"
    \o (IF target.entity_type = None THEN "" ELSE target.entity_type)
    \o ")"

\* _execute_update_stmt, up to cypher_query
update_query(st) ==
    LET target == st.target
        sets == Join(", ", [i \in 1..Len(st.assignments) |->
                              set_clause(st.assignments[i])], 1)
    IN IF target.type = "alias"
       THEN IF target.value.s \notin DOMAIN aliases
            THEN NoQuery(SemanticError("Unknown alias: " \o target.value.s))
            ELSE [called |-> TRUE, err |-> NoError,
                  match |-> match_label(target),
                  where |-> "WHERE id(n) = "
                            \o ToString(aliases[target.value.s]),
                  action |-> "SET " \o sets]
       ELSE IF target.type = "id"
       THEN [called |-> TRUE, err |-> NoError,
             match |-> match_label(target),
             where |-> "WHERE id(n) = " \o ToString(target.value.i),
             action |-> "SET " \o sets]
       ELSE IF target.type = "pattern"
       THEN [called |-> TRUE, err |-> NoError,
             match |-> match_label(target),
             where |-> "WHERE "
                       \o build_condition_clause(target.condition, "n"),
             action |-> "SET " \o sets]
       ELSE NoQuery(SemanticError("Invalid target type: " \o target.type))

delete_queryAnyAlias(st) ==
    LET target == st.target IN
    IF target.type = "alias"
    THEN [called |-> TRUE, err |-> NoError,
          match |-> match_label(target),
          where |-> "WHERE id(n) = " \o target.value.s,
          action |-> "DETACH DELETE n"]
    ELSE IF target.type = "id"
    THEN [called |-> TRUE, err |-> NoError,
          match |-> match_label(target),
          where |-> "WHERE id(n) = " \o ToString(target.value.i),
          action |-> "DETACH DELETE n"]
    ELSE IF target.type = "pattern"
    THEN [called |-> TRUE, err |-> NoError,
          match |-> match_label(target),
          where |-> "WHERE "
                    \o build_condition_clause(target.condition, "n"),
          action |-> "DETACH DELETE n"]
    ELSE NoQuery(SemanticError("Invalid target type: " \o target.type))

\* _execute_delete_stmt, up to cypher_query
delete_query(st) ==
    LET target == st.target IN
    IF target.type = "alias"
    THEN IF target.value.s \notin DOMAIN aliases
         THEN NoQuery(SemanticError("Unknown alias: " \o target.value.s))
         ELSE [called |-> TRUE, err |-> NoError,
               match |-> match_label(target),
               where |-> "WHERE id(n) = "
                         \o ToString(aliases[target.value.s]),
               action |-> "DETACH DELETE n"]
    ELSE IF target.type = "id"
    THEN [called |-> TRUE, err |-> NoError,
          match |-> match_label(target),
          where |-> "WHERE id(n) = " \o ToString(target.value.i),
          action |-> "DETACH DELETE n"]
    ELSE IF target.type = "pattern"
    THEN [called |-> TRUE, err |-> NoError,
          match |-> match_label(target),
          where |-> "WHERE "
                    \o build_condition_clause(target.condition, "n"),
          action |-> "DETACH DELETE n"]
    ELSE NoQuery(SemanticError("Invalid target type: " \o target.type))

BuildUpdate ==
    /\ statement.kind = "UpdateStmt"
    /\ emitted' = update_query(statement)
    /\ UNCHANGED <<statement, uuids, createdIds>>
    /\ UNCHANGED <<interpVars, parserVars, poolVars>>

BuildDelete ==
    /\ statement.kind = "DeleteStmt"
    /\ emitted' = delete_query(statement)
    /\ UNCHANGED <<statement, uuids, createdIds>>
    /\ UNCHANGED <<interpVars, parserVars, poolVars>>

\* models.py NodePattern, EdgePattern, ReturnItem with every field
NodePatternWith(alias, entity_type, condition) ==
    [alias |-> alias, entity_type |-> entity_type, condition |-> condition]
EdgePatternWith(relationship, condition, direction) ==
    [relationship |-> relationship, condition |-> condition,
     direction |-> direction]
ReturnItem(alias, property) == [alias |-> alias, property |-> property]

MaxNodes == 2

NodePatterns == {NodePatternWith("e", "Person", NoCondition),
                 NodePatternWith(None, "Person", OneCondition)}

\* parser.py direction: "->", "<-", or the default "bidirectional"
Directions == {"->", "<-", "bidirectional"}

EdgePatterns ==
    {EdgePatternWith(r, NoCondition, d) :
       r \in {None, "KNOWS"}, d \in Directions}
    \cup {EdgePatternWith("KNOWS", OneCondition, "->")}

\* Pattern(nodes, edges) as pattern() builds it from a chain, or from
\* children that yield no node at all
Patterns ==
    UNION {{[nodes |-> n, edges |-> e] :
              n \in [1..k -> NodePatterns],
              e \in [1..(IF k = 0 THEN 0 ELSE k - 1) -> EdgePatterns]} :
           k \in 0..MaxNodes}

ReturnLists == {<<>>, <<ReturnItem("e", "name")>>,
                <<ReturnItem("e", None), ReturnItem("e", "name")>>}

QueryStmtWith(pattern_, where, return_items) ==
    [kind |-> "QueryStmt", pattern |-> pattern_, where |-> where,
     return_items |-> return_items]

QueryStatements ==
    {QueryStmtWith(p, w, r) : p \in Patterns,
                              w \in Conditions \cup {NoCondition},
                              r \in ReturnLists}

\* the node part of _build_match_clause
node_str(node) ==
    "(" \o (IF node.alias = None THEN "n" ELSE node.alias) \o ":"
    \o node.entity_type
    \o (IF IsNoCondition(node.condition) THEN ""
        ELSE " " \o build_condition_for_node(node.condition))
    \o ")"

\* edge_str before the direction is added: "-[:REL {..}]" or "-[]"
edge_bracket(edge) ==
    IF edge.relationship # None
    THEN "[:" \o edge.relationship
         \o (IF IsNoCondition(edge.condition) THEN ""
             ELSE " " \o build_condition_for_node(edge.condition))
         \o "]"
    ELSE "[]"

\* the edge part of _build_match_clause; "<-" + edge_str[1:] drops the
\* leading "-" and adds nothing behind the bracket
edge_str(edge) ==
    IF edge.direction = "->" THEN "-" \o edge_bracket(edge) \o "->"
    ELSE IF edge.direction = "<-" THEN "<-" \o edge_bracket(edge)
    ELSE "-" \o edge_bracket(edge) \o "-"

RECURSIVE PatternStr(_, _)
PatternStr(pattern_, i) ==
    IF i > Len(pattern_.nodes) THEN ""
    ELSE node_str(pattern_.nodes[i])
         \o (IF i <= Len(pattern_.edges)
             THEN edge_str(pattern_.edges[i])
             ELSE "")
         \o PatternStr(pattern_, i + 1)

\* _build_match_clause
build_match_clause(pattern_) == "MATCH " \o PatternStr(pattern_, 1)

\* the WHERE clause of _execute_query_stmt
query_where_clause(where) ==
    IF IsNoCondition(where) THEN ""
    ELSE "WHERE "
         \o Join(" AND ", [i \in 1..Len(where.conditions) |->
                             build_property_condition(where.conditions[i],
                                                      "n")], 1)

\* the RETURN clause of _execute_query_stmt
query_return_clause(return_items) ==
    IF return_items = <<>> THEN "RETURN *"
    ELSE "RETURN "
         \o Join(", ", [i \in 1..Len(return_items) |->
                          IF return_items[i].property # None
                          THEN return_items[i].alias \o "."
                               \o return_items[i].property
                          ELSE return_items[i].alias], 1)

\* _execute_query_stmt, up to cypher_query
query_text(st) ==
    IF st.pattern.nodes = <<>>
    THEN [called |-> TRUE,
          err |-> SemanticError("Pattern must have at least one node"),
          match |-> "", edges |-> <<>>, where |-> "", returns |-> ""]
    ELSE [called |-> TRUE, err |-> NoError,
          match |-> build_match_clause(st.pattern),
          edges |-> [i \in 1..Len(st.pattern.edges) |->
                       edge_str(st.pattern.edges[i])],
          where |-> query_where_clause(st.where),
          returns |-> query_return_clause(st.return_items)]

BuildQuery ==
    /\ statement.kind = "QueryStmt"
    /\ emitted' = query_text(statement)
    /\ UNCHANGED <<statement, uuids, createdIds>>
    /\ UNCHANGED <<interpVars, parserVars, poolVars>>

CompileStatements ==
    InsertStatements \cup UpdateStatements \cup DeleteStatements
    \cup QueryStatements

\* the handler is about to run on any statement; MATCH reads no alias
CompileInit ==
    /\ InitExecution
    /\ InitParser
    /\ InitPool
    /\ statement \in CompileStatements
    /\ aliases \in IF statement.kind = "QueryStmt"
                   THEN {EmptyMap}
                   ELSE AliasTables
    /\ emitted = NotEmitted
    /\ uuids = 0
    /\ createdIds = <<>>

CompileNext ==
    \/ BuildInsert
    \/ BuildUpdate
    \/ BuildDelete
    \/ BuildQuery

CompileSpec == CompileInit /\ [][CompileNext]_vars

----------------------------------------------------------------------------
(* db.py DatabaseManager: threads calling get_connection() on one manager.
   Each step is one read or write of self._pool or self._lock. *)

MaxCalls == 2

\* the SimpleConnectionPool object
ThePool == "pool"

SetThread(f, t, val) == [f EXCEPT ![t] = val]

\* a thread enters get_connection()
GetConnection(t) ==
    /\ tpc[t] = "idle"
    /\ tcalls[t] < MaxCalls
    /\ tcalls' = SetThread(tcalls, t, tcalls[t] + 1)
    /\ tresult' = SetThread(tresult, t, "none")
    /\ tpc' = SetThread(tpc, t, "ensure")
    /\ UNCHANGED <<pool, lock, testState, poolsCreated>>
    /\ UNCHANGED <<interpVars, parserVars, compileVars>>

\* _ensure_pool: if self._pool is None, read without the lock
EnsurePool(t) ==
    /\ tpc[t] = "ensure"
    /\ tpc' = SetThread(tpc, t, IF pool = None THEN "acquire" ELSE "getconn")
    /\ UNCHANGED <<pool, lock, tcalls, tresult, testState, poolsCreated>>
    /\ UNCHANGED <<interpVars, parserVars, compileVars>>

\* with self._lock
AcquireLock(t) ==
    /\ tpc[t] = "acquire"
    /\ lock = None
    /\ lock' = t
    /\ tpc' = SetThread(tpc, t, "locked")
    /\ UNCHANGED <<pool, tcalls, tresult, testState, poolsCreated>>
    /\ UNCHANGED <<interpVars, parserVars, compileVars>>

\* the second if self._pool is None, read under the lock
RecheckPool(t) ==
    /\ tpc[t] = "locked"
    /\ IF pool = None
       THEN /\ tpc' = SetThread(tpc, t, "create")
            /\ UNCHANGED lock
       ELSE /\ tpc' = SetThread(tpc, t, "getconn")
            /\ lock' = None
    /\ UNCHANGED <<pool, tcalls, tresult, testState, poolsCreated>>
    /\ UNCHANGED <<interpVars, parserVars, compileVars>>

\* self._pool = pool.SimpleConnectionPool(...), or the constructor raises
\* and _ensure_pool raises ConnectionError
CreatePool(t) ==
    /\ tpc[t] = "create"
    /\ \E constructed \in BOOLEAN :
         IF constructed
         THEN /\ pool' = ThePool
              /\ poolsCreated' = poolsCreated + 1
              /\ testState' = "running"
              /\ tpc' = SetThread(tpc, t, "test")
              /\ UNCHANGED <<lock, tresult>>
         ELSE /\ lock' = None
              /\ tpc' = SetThread(tpc, t, "idle")
              /\ tresult' = SetThread(tresult, t, "ConnectionError")
              /\ UNCHANGED <<pool, poolsCreated, testState>>
    /\ UNCHANGED tcalls
    /\ UNCHANGED <<interpVars, parserVars, compileVars>>

\* self._test_connection() on a connection of the new pool; a failure is
\* raised as ConnectionError and self._pool keeps the pool; leaving the
\* with block releases the lock either way
TestConnection(t) ==
    /\ tpc[t] = "test"
    /\ \E passed \in BOOLEAN :
         IF passed
         THEN /\ testState' = "passed"
              /\ tpc' = SetThread(tpc, t, "getconn")
              /\ UNCHANGED tresult
         ELSE /\ testState' = "failed"
              /\ tpc' = SetThread(tpc, t, "idle")
              /\ tresult' = SetThread(tresult, t, "ConnectionError")
    /\ lock' = None
    /\ UNCHANGED <<pool, tcalls, poolsCreated>>
    /\ UNCHANGED <<interpVars, parserVars, compileVars>>

\* conn = self._pool.getconn(); yield conn
GetConn(t) ==
    /\ tpc[t] = "getconn"
    /\ IF pool = None
       THEN /\ tpc' = SetThread(tpc, t, "idle")
            /\ tresult' = SetThread(tresult, t, "ConnectionError")
       ELSE /\ tpc' = SetThread(tpc, t, "using")
            /\ UNCHANGED tresult
    /\ UNCHANGED <<pool, lock, tcalls, testState, poolsCreated>>
    /\ UNCHANGED <<interpVars, parserVars, compileVars>>

\* finally: self._pool.putconn(conn)
PutConn(t) ==
    /\ tpc[t] = "using"
    /\ tpc' = SetThread(tpc, t, "idle")
    /\ tresult' = SetThread(tresult, t, "connection")
    /\ UNCHANGED <<pool, lock, tcalls, testState, poolsCreated>>
    /\ UNCHANGED <<interpVars, parserVars, compileVars>>

PoolNext ==
    \E t \in Threads :
        \/ GetConnection(t)
        \/ EnsurePool(t)
        \/ AcquireLock(t)
        \/ RecheckPool(t)
        \/ CreatePool(t)
        \/ TestConnection(t)
        \/ GetConn(t)
        \/ PutConn(t)

PoolSpec == Init /\ [][PoolNext]_vars

----------------------------------------------------------------------------
(* Properties *)

Raised == pc = "idle" /\ outcome = "raised"

\* the alias names a statement needs resolved: CONNECT endpoints written as
\* names, and the alias target of UPDATE / DELETE
ReferencedAliases(stmt) ==
    CASE stmt.kind = "ConnectRel" ->
           (IF stmt.from_ref.type = "str" THEN {stmt.from_ref.value} ELSE {})
           \cup (IF stmt.to_ref.type = "str" THEN {stmt.to_ref.value} ELSE {})
      [] stmt.kind \in {"UpdateStmt", "DeleteStmt"} ->
           IF stmt.target.type = "alias" THEN {stmt.target.value} ELSE {}
      [] OTHER -> {}

\* C1: a CONNECT, UPDATE or DELETE that references an alias bound by an
\* INSERT of an earlier execute() call, and not bound again by the running
\* call, ends the call with a SemanticError.
C1_AliasNotResolvableLater ==
    (\E a \in ReferencedAliases(cur) : a \in prevBound /\ a \notin boundNow)
        => (Raised /\ error.cls = "SemanticError")

C1_Witness ==
    /\ Raised
    /\ cur.kind = "UpdateStmt"
    /\ cur.target.type = "alias"
    /\ cur.target.value \in prevBound \ boundNow
    /\ error = SemanticError("Unknown alias: " \o cur.target.value)

\* C2 as stated: after execute() has been entered the alias table holds no
\* binding of an earlier call, whatever the outcome, a ParseError included.
C2_ClearedWhateverOutcome ==
    \A a \in DOMAIN aliases : a \in boundNow

\* C2 amended: the alias table is cleared once parse() has returned a
\* Program, so from then on it holds only bindings of the running call; a
\* call that fails with ParseError leaves the alias table as it found it.
C2_ClearedAfterParse ==
    /\ [](error.cls # "ParseError" => \A a \in DOMAIN aliases : a \in boundNow)
    /\ [][error'.cls = "ParseError" => aliases' = aliases]_vars

C2_Witness ==
    /\ pc = "loop"
    /\ idx = 0
    /\ prevBound # {}
    /\ aliases = EmptyMap

\* C3: entering execute() leaves both registries as they were, no step ever
\* removes a registered name, and an INSERT / CONNECT of a registered type
\* does not fail the "registered" check.
C3_RegistryPersists ==
    /\ [][pc = "idle" =>
            (entities' = entities /\ relationships' = relationships)]_vars
    /\ [][/\ DOMAIN entities \subseteq DOMAIN entities'
          /\ DOMAIN relationships \subseteq DOMAIN relationships']_vars
    /\ [](cur.kind = "InsertEntity" /\ cur.entity_type \in DOMAIN entities
            => error.msg # "Unknown entity type: " \o cur.entity_type)
    /\ [](cur.kind = "ConnectRel"
            /\ cur.relationship \in DOMAIN relationships
            => error.msg # "Unknown relationship type: "
                              \o cur.relationship)

C3_Witness ==
    /\ pc = "gateway"
    /\ idx = 1
    /\ cur.kind = "InsertEntity"
    /\ cur.entity_type \in DOMAIN entities
    /\ prevBound # {}
    /\ aliases = EmptyMap

\* C4: once a statement has raised, the call is over: no further statement
\* is taken, nothing is registered or bound, no Gateway call is issued and
\* the call does not return.
C4_AbortOnFirstError ==
    /\ [](outcome = "raised" => pc = "idle")
    /\ [][outcome = "raised" =>
            /\ idx' # idx + 1
            /\ entities' = entities
            /\ relationships' = relationships
            /\ DOMAIN aliases' \subseteq DOMAIN aliases
            /\ Len(gwCalls') <= Len(gwCalls)
            /\ outcome' # "returned"]_vars

C4_Witness ==
    /\ Raised
    /\ idx > 0
    /\ idx < nstmts
    /\ results # <<>>

\* C5: the step on which an error leaves execute() changes neither registry
\* nor the alias table and issues no Gateway call.
C5_NoRollback ==
    [][(pc # "idle" /\ outcome' = "raised") =>
         /\ entities' = entities
         /\ relationships' = relationships
         /\ aliases' = aliases
         /\ gwCalls' = gwCalls]_vars

C5_Witness ==
    /\ Raised
    /\ idx = 3
    /\ boundNow # {}
    /\ DOMAIN aliases = boundNow
    /\ DOMAIN entities # {}
    /\ DOMAIN relationships # {}
    /\ Len(gwCalls) >= 2

\* C6: execute() returns exactly the rows the Gateway returned for the MATCH
\* statements of the script, in statement order.
C6_ResultIsMatchRows ==
    outcome = "returned" => results = matchRows

C6_Witness ==
    /\ outcome = "returned"
    /\ Len(results) = 2
    /\ results[1] # results[2]
    /\ boundNow # {}
    /\ Len(gwCalls) = 3

\* C7: an error that leaves execute() is a ParseError, a SemanticError or an
\* ExecutionError.
C7_ErrorClasses ==
    outcome = "raised" =>
        error.cls \in {"ParseError", "SemanticError", "ExecutionError"}

C7_Witness ==
    /\ Raised
    /\ origError.cls = "ConnectionError"
    /\ error.cls = "ExecutionError"

\* C8 as stated: the exception that reaches the caller is the one that was
\* raised, class, message and code intact.
C8_Unmodified ==
    outcome = "raised" => error = origError

\* C8 amended: a ParseError of the parser, a SemanticError and an
\* ExecutionError reach the caller unmodified; any other exception is
\* replaced by an ExecutionError without code whose message is
\* "Unexpected execution error: " followed by the original message.
C8_UnmodifiedOrWrapped ==
    outcome = "raised" =>
        IF origError.cls \in {"ParseError", "SemanticError", "ExecutionError"}
        THEN error = origError
        ELSE error = Error("ExecutionError",
                           UnexpectedMsg \o origError.msg, None)

C8_Witness ==
    /\ Raised
    /\ origError = Error("ExecutionError", NativeMsg, "23505")
    /\ error = origError

\* C9: a statement is taken by the loop only when no Gateway call is in
\* flight, with every alias bound so far in the alias table; Gateway calls
\* are issued in statement order, at most one per statement.
C9_OneAtATime ==
    /\ [][idx' = idx + 1 =>
            (pc = "loop" /\ boundNow \subseteq DOMAIN aliases)]_vars
    /\ [](\A i \in 1..Len(gwCalls) :
            /\ gwCalls[i] <= idx
            /\ i > 1 => gwCalls[i - 1] < gwCalls[i])
    /\ [](pc = "gateway" =>
            (gwCalls # <<>> /\ gwCalls[Len(gwCalls)] = idx))

C9_Witness ==
    /\ pc = "gateway"
    /\ idx = 2
    /\ gwCalls = <<1, 2>>
    /\ cur.kind = "UpdateStmt"
    /\ cur.target.type = "alias"
    /\ cur.target.value \in boundNow

\* C10: taking an INSERT whose entity type is not registered raises
\* SemanticError "Unknown entity type: <type>", issues no Gateway call and
\* binds no alias.
C10_UnknownEntityType ==
    [][(/\ idx' = idx + 1
        /\ cur'.kind = "InsertEntity"
        /\ cur'.entity_type \notin DOMAIN entities) =>
         /\ pc' = "idle"
         /\ outcome' = "raised"
         /\ error' = SemanticError("Unknown entity type: "
                                   \o cur'.entity_type)
         /\ gwCalls' = gwCalls
         /\ aliases' = aliases]_vars

C10_Witness ==
    /\ Raised
    /\ cur = InsertEntity("Ghost", "a")
    /\ "Ghost" \notin DOMAIN entities
    /\ error.msg = "Unknown entity type: Ghost"
    /\ error.cls = "SemanticError"
    /\ "a" \notin DOMAIN aliases
    /\ \A i \in 1..Len(gwCalls) : gwCalls[i] # idx

\* the loop takes a statement of one of the given kinds on this step
Takes(kinds) == idx' = idx + 1 /\ cur'.kind \in kinds

\* the call ends on this step with the SemanticError `msg`, and the
\* statement that raised it issued no Gateway call
RaisesSemantic(msg) ==
    /\ pc' = "idle"
    /\ outcome' = "raised"
    /\ error' = SemanticError(msg)
    /\ gwCalls' = gwCalls

\* C11: taking a CONNECT whose relationship is not registered raises
\* SemanticError "Unknown relationship type: <name>" whether or not its
\* endpoints resolve (so never "Unknown alias"), before any Gateway call.
C11_UnknownRelationshipFirst ==
    [][(Takes({"ConnectRel"})
        /\ cur'.relationship \notin DOMAIN relationships) =>
         RaisesSemantic("Unknown relationship type: "
                        \o cur'.relationship)]_vars

C11_Witness ==
    /\ Raised
    /\ cur = ConnectRel(StrRef("a"), "NOPE", StrRef("b"))
    /\ "a" \in DOMAIN aliases
    /\ "b" \notin DOMAIN aliases
    /\ "NOPE" \notin DOMAIN relationships
    /\ error = SemanticError("Unknown relationship type: NOPE")

\* C12: taking an UPDATE or a DELETE whose target is an alias that is not
\* in the alias table raises SemanticError "Unknown alias: <name>" and
\* issues no Gateway call.
C12_UnknownAliasTarget ==
    [][(/\ Takes({"UpdateStmt", "DeleteStmt"})
        /\ cur'.target.type = "alias"
        /\ cur'.target.value \notin DOMAIN aliases) =>
         RaisesSemantic("Unknown alias: " \o cur'.target.value)]_vars

C12_Witness ==
    /\ Raised
    /\ cur = DeleteStmt(TargetRef("alias", "b", None))
    /\ DOMAIN aliases = {"a"}
    /\ error = SemanticError("Unknown alias: b")
    /\ Len(gwCalls) < idx

\* C13 as stated: an ENTITY for a name already registered never raises and
\* the entity stays registered.
C13_RedefinitionNeverRaises ==
    redefined => (outcome # "raised" /\ cur.name \in DOMAIN entities)

\* C13 amended: an ENTITY for a name already registered leaves the entity
\* registered under the new definition and raises only when its Gateway
\* call fails with an exception that is not an ExecutionError; a Gateway
\* ExecutionError is swallowed.
C13_RedefinitionRaisesOnlyOtherClasses ==
    redefined =>
        /\ cur.name \in DOMAIN entities
        /\ entities[cur.name] = cur
        /\ outcome = "raised" =>
             /\ origError \in {map_db_error(c, NativeMsg) : c \in PgCodes}
             /\ origError.cls # "ExecutionError"

C13_Witness ==
    /\ redefined
    /\ pc = "loop"
    /\ swallowed.cls = "ExecutionError"
    /\ outcome = "none"
    /\ cur.name \in DOMAIN entities

\* C17: the ENTITY handler drops only a "label already exists" failure; a
\* unique-constraint violation (23505) or a failure without SQLSTATE, such
\* as a connectivity failure of the pool, is not dropped.
C17_OnlyLabelExistsSwallowed ==
    swallowed # NoError => swallowed.code \notin {None, "23505"}

\* C18: taking a RELATIONSHIP statement registers the definition under its
\* name and does nothing else: no Gateway call, no rows, entity registry
\* and alias table unchanged.
C18_RelationshipRegistersOnly ==
    [][Takes({"RelationshipDef"}) =>
         /\ relationships' = Put(relationships, cur'.name, cur')
         /\ pc' = "loop"
         /\ gwCalls' = gwCalls
         /\ results' = results
         /\ entities' = entities
         /\ aliases' = aliases]_vars

C18_Witness ==
    /\ pc = "loop"
    /\ cur.kind = "RelationshipDef"
    /\ idx = 3
    /\ Len(gwCalls) = 2
    /\ results # <<>>
    /\ aliases # EmptyMap
    /\ DOMAIN entities # {}

\* the statement taken last ran to its end without raising
Completed == cur # NoStmt /\ pc # "gateway" /\ outcome # "raised"

\* C19 as stated: once an INSERT ... AS a has completed without error, a is
\* bound in the alias table.
C19_AliasBoundAfterInsert ==
    (Completed /\ cur.kind = "InsertEntity" /\ cur.alias # None)
        => cur.alias \in DOMAIN aliases

\* C19 amended: once an INSERT ... AS a has completed without error and the
\* Gateway returned at least one row for it, a is bound to the identifier
\* of the first row, and a later statement of the call that references a
\* never fails with "Unknown alias: a". When the Gateway returned no row
\* the INSERT completes and leaves the alias table as it was.
C19_AliasBoundToReturnedId ==
    /\ []((Completed /\ cur.kind = "InsertEntity" /\ cur.alias # None
            /\ gwRows # <<>>)
          => (cur.alias \in DOMAIN aliases
              /\ aliases[cur.alias] = gwRows[1]))
    /\ [][\A a \in boundNow :
            (idx' = idx + 1 /\ a \in ReferencedAliases(cur'))
              => error'.msg # "Unknown alias: " \o a]_vars
    /\ [][(pc = "gateway" /\ pc' = "loop" /\ cur.kind = "InsertEntity"
           /\ gwRows' = <<>>) => aliases' = aliases]_vars

C19_Witness ==
    /\ pc = "gateway"
    /\ idx = 2
    /\ cur = UpdateStmt(TargetRef("alias", "a", None))
    /\ boundNow = {"a"}
    /\ aliases["a"] = 2

\* C20: a CONNECT of a registered relationship resolves its two endpoints
\* independently: an integer is used as it is, a bound name gives its bound
\* identifier, and the first unbound name raises "Unknown alias: <name>"
\* before any Gateway call.
RefResolves(ref) == ref.type = "int" \/ ref.value \in DOMAIN aliases
RefId(ref) == IF ref.type = "int" THEN ref.value ELSE aliases[ref.value]

C20_ConnectResolution ==
    [][(Takes({"ConnectRel"})
        /\ cur'.relationship \in DOMAIN relationships) =>
         IF ~RefResolves(cur'.from_ref)
         THEN RaisesSemantic("Unknown alias: " \o cur'.from_ref.value)
         ELSE IF ~RefResolves(cur'.to_ref)
         THEN RaisesSemantic("Unknown alias: " \o cur'.to_ref.value)
         ELSE /\ pc' = "gateway"
              /\ resolved' = <<RefId(cur'.from_ref), RefId(cur'.to_ref)>>]_vars

C20_Witness ==
    /\ pc = "gateway"
    /\ cur = ConnectRel(IntRef(1), "KNOWS", StrRef("a"))
    /\ aliases["a"] = 2
    /\ resolved = <<1, 2>>

----------------------------------------------------------------------------
(* C14: a script in which some statement lacks its closing semicolon is
   rejected by parse() with a ParseError, whatever the kind of the
   statement and wherever it stands; parse() never returns a Program for
   it. *)

Unterminated(s) == \E i \in 1..Len(s) : ~s[i].terminated

C14_MissingSemicolonRejected ==
    (parsed.called /\ Unterminated(script)) =>
        /\ ~parsed.ok
        /\ parsed.program = <<>>
        /\ parsed.exc.cls = "ParseError"
        /\ parsed.exc.source = script

\* a two-statement script whose first statement is complete and whose
\* second, a MATCH, is not: parse() has raised ParseError
C14_Witness ==
    /\ Len(script) = 2
    /\ script[1].terminated
    /\ script[2] = [kind |-> "QueryStmt", terminated |-> FALSE]
    /\ parsed.called
    /\ ~parsed.ok
    /\ parsed.exc.cls = "ParseError"

----------------------------------------------------------------------------
(* C16: for a Pattern built from a fully-connected chain (items strictly
   alternating node, edge, node, ..., starting and ending with a node),
   len(edges) = len(nodes) - 1, every node and every edge of the chain is
   present, and both lists keep the order of the source. *)

IsChain(its) ==
    /\ Len(its) >= 1
    /\ Len(its) % 2 = 1
    /\ \A i \in 1..Len(its) :
         IF i % 2 = 1 THEN IsNode(its[i]) ELSE IsEdge(its[i])

----------------------------------------------------------------------------
(* C27: within an execute() call the alias table is changed only by an
   INSERT that carries an alias, which adds or overwrites exactly that
   binding; the registry is changed only by ENTITY and RELATIONSHIP, which
   add or replace exactly the definition of that name; CONNECT, UPDATE,
   DELETE and MATCH leave both as they were, whether they succeed or
   fail. *)

\* map2 is map with at most the entry of key added or replaced
OnlyEntryChanged(map, map2, key) ==
    /\ DOMAIN map2 = DOMAIN map \cup {key}
    /\ \A k \in DOMAIN map \ {key} : map2[k] = map[k]

C27_StatementFrame ==
    [][pc # "idle" =>
         /\ aliases' # aliases =>
              /\ cur'.kind = "InsertEntity"
              /\ cur'.alias # None
              /\ OnlyEntryChanged(aliases, aliases', cur'.alias)
         /\ entities' # entities =>
              /\ cur'.kind = "EntityDef"
              /\ OnlyEntryChanged(entities, entities', cur'.name)
         /\ relationships' # relationships =>
              /\ cur'.kind = "RelationshipDef"
              /\ OnlyEntryChanged(relationships, relationships', cur'.name)
         /\ cur'.kind \in {"ConnectRel", "UpdateStmt", "DeleteStmt",
                           "QueryStmt"} =>
              UNCHANGED <<aliases, entities, relationships>>]_vars

\* a CONNECT has failed while an alias and two entities were registered
C27_Witness ==
    /\ Raised
    /\ cur.kind = "ConnectRel"
    /\ DOMAIN aliases = {"a"}
    /\ DOMAIN entities = {"Person", "Ghost"}

----------------------------------------------------------------------------
(* C21: DELETE resolves its target exactly as UPDATE does: for every
   TargetRef (alias, id, pattern or any other tag) and every alias table,
   either both raise the same SemanticError or both emit a match on the
   same label with the same filter. *)

Built(kind) == emitted.called /\ statement.kind = kind

TargetOutcome(q) == [err |-> q.err, match |-> q.match, where |-> q.where]

C21_DeleteResolvesAsUpdate ==
    /\ Built("DeleteStmt") =>
         \A l \in SetAssignmentLists :
            TargetOutcome(emitted)
              = TargetOutcome(update_query(UpdateStmtWith(statement.target,
                                                          l)))
    /\ Built("UpdateStmt") =>
         TargetOutcome(emitted)
           = TargetOutcome(delete_query(DeleteStmtWith(statement.target)))

\* DELETE of an alias the table does not hold has raised
C21_Witness ==
    /\ Built("DeleteStmt")
    /\ statement.target.type = "alias"
    /\ statement.target.value.s \notin DOMAIN aliases
    /\ aliases # EmptyMap
    /\ emitted.err = SemanticError("Unknown alias: b")

----------------------------------------------------------------------------
(* C22: in INSERT each assignment value is resolved as: a literal is used
   verbatim (a string literal that equals a bound alias name is not
   replaced); a bare name that is a bound alias is replaced by the native
   identifier it is bound to; a bare name that is not bound is passed
   through as the raw string, and nothing is raised. *)

\* i is the last assignment to its field, and the field is not "id"
Effective(assignments, i) ==
    /\ assignments[i].field # "id"
    /\ \A j \in (i + 1)..Len(assignments) :
         assignments[j].field # assignments[i].field

C22_AssignmentValueResolution ==
    Built("InsertEntity") =>
        /\ emitted.err = NoError
        /\ \A i \in 1..Len(statement.assignments) :
             Effective(statement.assignments, i) =>
               LET v == statement.assignments[i].value
                   got == DictGet(emitted.properties,
                                  statement.assignments[i].field)
               IN /\ v.cls = "Literal" => got = v.value
                  /\ (v.cls = "str" /\ v.name \in DOMAIN aliases) =>
                       got = PyInt(aliases[v.name])
                  /\ (v.cls = "str" /\ v.name \notin DOMAIN aliases) =>
                       got = PyStr(v.name)

\* name = "a" (the string literal) followed by nothing, while alias a is
\* bound: the property is still the string
C22_Witness ==
    /\ Built("InsertEntity")
    /\ statement.assignments
         = <<Assignment("name", Literal("string", PyStr("a")))>>
    /\ "a" \in DOMAIN aliases
    /\ DictGet(emitted.properties, "name") = PyStr("a")

----------------------------------------------------------------------------
(* C23: every create-node query built for an INSERT carries an "id"
   property holding a freshly synthesized identifier that differs from
   the identifier of every other INSERT, and an assignment to a field
   named id in the same INSERT never replaces it. *)

C23_FreshIdProperty ==
    /\ \A i, j \in 1..Len(createdIds) :
         i # j => createdIds[i] # createdIds[j]
    /\ Built("InsertEntity") =>
         /\ Cardinality({i \in 1..Len(emitted.properties) :
                           emitted.properties[i].key = "id"}) = 1
         /\ DictGet(emitted.properties, "id") = PyStr(uuid4(uuids))
         /\ createdIds[Len(createdIds)] = DictGet(emitted.properties, "id")

\* the second INSERT of a statement that assigns id itself
C23_Witness ==
    /\ Built("InsertEntity")
    /\ uuids = 2
    /\ \E i \in 1..Len(statement.assignments) :
         statement.assignments[i].field = "id"

----------------------------------------------------------------------------
(* C24: the filter clause built for a MATCH statement's WHERE joins its
   predicates left to right with the boolean operators written in the
   script, so a condition joined by OR is emitted with OR. *)

C24_WhereKeepsOperators ==
    (Built("QueryStmt") /\ emitted.err = NoError
       /\ ~IsNoCondition(statement.where)) =>
        LET parts == [i \in 1..Len(statement.where.conditions) |->
                        build_property_condition(
                            statement.where.conditions[i], "n")]
        IN emitted.where
             = "WHERE " \o parts[1]
               \o JoinOperators(parts, statement.where.operators, 1)

----------------------------------------------------------------------------
(* C25: each pattern edge is emitted with its direction preserved:
   "->" as -[...]->, "<-" as <-[...]-, no direction as -[...]-, in every
   case with a connector on both sides of the bracket. *)

ExpectedEdge(edge) ==
    IF edge.direction = "->" THEN "-" \o edge_bracket(edge) \o "->"
    ELSE IF edge.direction = "<-" THEN "<-" \o edge_bracket(edge) \o "-"
    ELSE "-" \o edge_bracket(edge) \o "-"

C25_EdgeDirectionPreserved ==
    (Built("QueryStmt") /\ emitted.err = NoError) =>
        \A i \in 1..Len(statement.pattern.edges) :
            emitted.edges[i] = ExpectedEdge(statement.pattern.edges[i])

----------------------------------------------------------------------------
(* C26: every literal embedded in emitted query text is formatted the
   same way in every statement kind: a string single-quoted, a boolean as
   bare true/false, null as bare null, a number in decimal form. *)

LiteralText(literal) ==
    CASE literal.type = "string" -> "'" \o literal.value.s \o "'"
      [] literal.type = "boolean" ->
           (IF literal.value.b THEN "true" ELSE "false")
      [] literal.type = "null" -> "null"
      [] OTHER -> ToString(literal.value.i)

C26_UniformLiteralFormat ==
    /\ Built("InsertEntity") =>
         \A i \in 1..Len(statement.assignments) :
            (Effective(statement.assignments, i)
               /\ statement.assignments[i].value.cls = "Literal") =>
              json_dumps(DictGet(emitted.properties,
                                 statement.assignments[i].field))
                = LiteralText(statement.assignments[i].value)
    /\ (Built("UpdateStmt") /\ emitted.err = NoError
          /\ \A i \in 1..Len(statement.assignments) :
               statement.assignments[i].value.cls = "Literal") =>
         emitted.action
           = "SET " \o Join(", ", [i \in 1..Len(statement.assignments) |->
                                     "n." \o statement.assignments[i].field
                                     \o " = "
                                     \o LiteralText(
                                          statement.assignments[i].value)],
                            1)

----------------------------------------------------------------------------
(* C28: for UPDATE and DELETE with an alias or id target the match clause
   selects the element by its native identifier only and carries no empty
   label: the node pattern is never (n:) with nothing after the colon. *)

C28_NoEmptyLabel ==
    ((Built("UpdateStmt") \/ Built("DeleteStmt"))
       /\ statement.target.type \in {"alias", "id"}
       /\ emitted.err = NoError) =>
        emitted.match # "MATCH (n:)"

----------------------------------------------------------------------------
(* C29: with several threads calling get_connection() on a manager whose
   pool is not yet initialised, no thread obtains a connection from the
   pool before the initialising thread's connection test has completed,
   and the pool is created at most once. *)

C29_NoConnectionBeforeTest ==
    /\ \A t \in Threads :
         tpc[t] = "using" => testState \notin {"none", "running"}
    /\ poolsCreated <= 1

----------------------------------------------------------------------------
(* C30: if the connection test fails during pool initialisation,
   _ensure_pool raises ConnectionError and leaves the manager without a
   pool, so the next get_connection() runs the initialisation and the test
   again instead of handing out connections from a pool that never passed
   the test. *)

C30_NoPoolAfterFailedTest ==
    /\ testState = "failed" => pool = None
    /\ \A t \in Threads : tpc[t] = "using" => testState # "failed"

====
